---- MODULE Spec2Model ----
(***************************************************************************)
(* XSRF token generation and validation of oauth2client/xsrfutil.py.       *)
(*                                                                         *)
(* Text and byte strings are sequences of character codes (0..255).  A     *)
(* token value carries its Python representation: kind "bytes" is str on   *)
(* Python 2 and bytes on Python 3, kind "text" is unicode on Python 2 and  *)
(* str on Python 3.  The source names both runtimes in its comments, so    *)
(* the runtime is a variable fixed at start: Python 2.7, or a Python 3     *)
(* whose hmac.new still has a default digest and whose base64 decoder      *)
(* takes ASCII text (3.3 to 3.7).  Keys, user ids and action ids are ASCII *)
(* text, which generate_token can encode on both.                          *)
(*                                                                         *)
(* The library calls of the source (base64, str.format, int, repr of       *)
(* bytes, UTF-8 decoding) are operators that compute what the library      *)
(* computes.  The clock int(time.time()) of a running system is positive.  *)
(***************************************************************************)
EXTENDS Integers, Sequences

(***************************************************************************)
(* Constants of the source.                                                *)
(***************************************************************************)
\* DELIMITER = ':'
DELIMITER == 58

\* DEFAULT_TIMEOUT_SECS = 1*60*60
DEFAULT_TIMEOUT_SECS == 1*60*60

(***************************************************************************)
(* Bounds of the model.                                                    *)
(***************************************************************************)
\* the system clock int(time.time()) ranges over 1..MaxClock
MaxClock == 2

\* width in bytes of the idealised HMAC digest
BlockSize == 11

(***************************************************************************)
(* Integer helpers: the bitwise operators of Python on 0..255.             *)
(***************************************************************************)
RECURSIVE BitXor(_, _)
BitXor(x, y) ==
  IF x = y THEN 0
  ELSE IF x = 0 THEN y
  ELSE IF y = 0 THEN x
  ELSE (((x % 2) + (y % 2)) % 2) + 2 * BitXor(x \div 2, y \div 2)

RECURSIVE BitOr(_, _)
BitOr(x, y) ==
  IF x = y \/ y = 0 THEN x
  ELSE IF x = 0 THEN y
  ELSE (IF x % 2 = 1 \/ y % 2 = 1 THEN 1 ELSE 0) + 2 * BitOr(x \div 2, y \div 2)

SeqOf(n, v) == [i \in 1..n |-> v]

RECURSIVE Flatten(_)
Flatten(ss) == IF ss = <<>> THEN <<>> ELSE Head(ss) \o Flatten(Tail(ss))

LastIndexOf(s, c) ==
  IF \E i \in 1..Len(s) : s[i] = c
  THEN CHOOSE i \in 1..Len(s) : s[i] = c /\ \A j \in (i+1)..Len(s) : s[j] # c
  ELSE 0

(***************************************************************************)
(* '{time}'.format(time=when): the decimal form of an integer.             *)
(***************************************************************************)
RECURSIVE NatToStr(_)
NatToStr(n) ==
  IF n < 10 THEN <<48 + n>> ELSE Append(NatToStr(n \div 10), 48 + (n % 10))

IntToStr(n) == IF n < 0 THEN <<45>> \o NatToStr(0 - n) ELSE NatToStr(n)

(***************************************************************************)
(* int(field): surrounding ASCII whitespace is stripped, one optional sign,*)
(* then one or more decimal digits.  Anything else is a ValueError.        *)
(***************************************************************************)
IsSpace(c) == c \in {9, 10, 11, 12, 13, 32}

IsDigit(c) == c \in 48..57

RECURSIVE LStrip(_)
LStrip(s) == IF s # <<>> /\ IsSpace(Head(s)) THEN LStrip(Tail(s)) ELSE s

RECURSIVE RStrip(_)
RStrip(s) ==
  IF s # <<>> /\ IsSpace(s[Len(s)]) THEN RStrip(SubSeq(s, 1, Len(s) - 1)) ELSE s

RECURSIVE DigitsValue(_)
DigitsValue(s) ==
  IF s = <<>> THEN 0
  ELSE 10 * DigitsValue(SubSeq(s, 1, Len(s) - 1)) + (s[Len(s)] - 48)

\* [ok |-> FALSE] is ValueError
ParseInt(field) ==
  LET t == RStrip(LStrip(field))
      signed == t # <<>> /\ t[1] \in {43, 45}
      digits == IF signed THEN Tail(t) ELSE t
  IN  IF digits # <<>> /\ \A i \in 1..Len(digits) : IsDigit(digits[i])
      THEN [ok |-> TRUE,
            value |-> IF signed /\ t[1] = 45 THEN 0 - DigitsValue(digits)
                      ELSE DigitsValue(digits)]
      ELSE [ok |-> FALSE, value |-> 0]

(***************************************************************************)
(* base64.urlsafe_b64encode / urlsafe_b64decode.                           *)
(***************************************************************************)
B64Char(v) ==
  IF v < 26 THEN 65 + v
  ELSE IF v < 52 THEN 97 + (v - 26)
  ELSE IF v < 62 THEN 48 + (v - 52)
  ELSE IF v = 62 THEN 45 ELSE 95

\* the decoder maps '-' and '_' to '+' and '/' and then accepts the standard
\* alphabet, so both spellings of 62 and 63 are data characters; -1 is a
\* character the non-strict decoder skips
B64Value(c) ==
  IF c \in 65..90 THEN c - 65
  ELSE IF c \in 97..122 THEN c - 97 + 26
  ELSE IF c \in 48..57 THEN c - 48 + 52
  ELSE IF c \in {43, 45} THEN 62
  ELSE IF c \in {47, 95} THEN 63
  ELSE 0 - 1

RECURSIVE urlsafe_b64encode(_)
urlsafe_b64encode(b) ==
  IF Len(b) = 0 THEN <<>>
  ELSE IF Len(b) = 1 THEN
    <<B64Char(b[1] \div 4), B64Char((b[1] % 4) * 16), 61, 61>>
  ELSE IF Len(b) = 2 THEN
    <<B64Char(b[1] \div 4), B64Char(((b[1] % 4) * 16) + (b[2] \div 16)),
      B64Char((b[2] % 16) * 4), 61>>
  ELSE
    <<B64Char(b[1] \div 4), B64Char(((b[1] % 4) * 16) + (b[2] \div 16)),
      B64Char(((b[2] % 16) * 4) + (b[3] \div 64)), B64Char(b[3] % 64)>>
    \o urlsafe_b64encode(SubSeq(b, 4, Len(b)))

\* binascii.a2b_base64 in its default non-strict mode, from character i on:
\* characters outside the alphabet are skipped, a complete pad sequence ends
\* the input, and data that stops inside a quad is "Incorrect padding"
\* (ok |-> FALSE).  st holds the decoder's quad_pos, leftchar, pads and output.
RECURSIVE a2b_base64(_, _, _)
a2b_base64(s, i, st) ==
  IF i > Len(s) THEN [ok |-> st.quad = 0, bytes |-> st.out]
  ELSE IF s[i] = 61 THEN
    IF st.quad >= 2 /\ st.quad + st.pads + 1 >= 4
    THEN [ok |-> TRUE, bytes |-> st.out]
    ELSE a2b_base64(s, i + 1, [st EXCEPT !.pads = @ + 1])
  ELSE LET v == B64Value(s[i]) IN
    IF v < 0 THEN a2b_base64(s, i + 1, st)
    ELSE IF st.quad = 0 THEN
      a2b_base64(s, i + 1, [quad |-> 1, left |-> v, pads |-> 0, out |-> st.out])
    ELSE IF st.quad = 1 THEN
      a2b_base64(s, i + 1,
        [quad |-> 2, left |-> v % 16, pads |-> 0,
         out |-> Append(st.out, (st.left * 4) + (v \div 16))])
    ELSE IF st.quad = 2 THEN
      a2b_base64(s, i + 1,
        [quad |-> 3, left |-> v % 4, pads |-> 0,
         out |-> Append(st.out, (st.left * 16) + (v \div 4))])
    ELSE
      a2b_base64(s, i + 1,
        [quad |-> 0, left |-> 0, pads |-> 0,
         out |-> Append(st.out, (st.left * 64) + v)])

IsAscii(s) == \A i \in 1..Len(s) : s[i] < 128

\* urlsafe_b64decode(token).  A failure is TypeError on Python 2 and
\* binascii.Error or ValueError on Python 3, all caught by validate_token.
\* Python 2 cannot translate a unicode argument; Python 3 accepts text only
\* when it is ASCII.
urlsafe_b64decode(runtime, token) ==
  IF token.kind = "text" /\ (runtime = 2 \/ ~IsAscii(token.s))
  THEN [ok |-> FALSE, bytes |-> <<>>]
  ELSE a2b_base64(token.s, 1, [quad |-> 0, left |-> 0, pads |-> 0, out |-> <<>>])

(***************************************************************************)
(* bytes.decode('utf-8'): only whether it raises UnicodeDecodeError        *)
(* matters, the delimiter and the digits being ASCII.                      *)
(***************************************************************************)
IsCont(c) == c \in 128..191

RECURSIVE Utf8Valid(_)
Utf8Valid(b) ==
  IF b = <<>> THEN TRUE
  ELSE LET c == b[1]
           n == Len(b)
       IN IF c < 128 THEN Utf8Valid(Tail(b))
          ELSE IF c \in 194..223 THEN
            n >= 2 /\ IsCont(b[2]) /\ Utf8Valid(SubSeq(b, 3, n))
          ELSE IF c \in 224..239 THEN
            /\ n >= 3 /\ IsCont(b[2]) /\ IsCont(b[3])
            /\ (c = 224 => b[2] >= 160)
            /\ (c = 237 => b[2] <= 159)
            /\ Utf8Valid(SubSeq(b, 4, n))
          ELSE IF c \in 240..244 THEN
            /\ n >= 4 /\ IsCont(b[2]) /\ IsCont(b[3]) /\ IsCont(b[4])
            /\ (c = 240 => b[2] >= 144)
            /\ (c = 244 => b[2] <= 143)
            /\ Utf8Valid(SubSeq(b, 5, n))
          ELSE FALSE

(***************************************************************************)
(* '{digest}'.format(digest=digest) on Python 3 is repr(bytes).            *)
(***************************************************************************)
HexDigit(v) == IF v < 10 THEN 48 + v ELSE 97 + (v - 10)

ReprByte(c, quote) ==
  IF c = 92 THEN <<92, 92>>
  ELSE IF c = quote THEN <<92, c>>
  ELSE IF c = 9 THEN <<92, 116>>
  ELSE IF c = 10 THEN <<92, 110>>
  ELSE IF c = 13 THEN <<92, 114>>
  ELSE IF c < 32 \/ c >= 127 THEN <<92, 120, HexDigit(c \div 16), HexDigit(c % 16)>>
  ELSE <<c>>

BytesRepr(b) ==
  LET has(q) == \E i \in 1..Len(b) : b[i] = q
      quote == IF has(39) /\ ~has(34) THEN 34 ELSE 39
  IN  <<98, quote>> \o Flatten([i \in 1..Len(b) |-> ReprByte(b[i], quote)])
      \o <<quote>>

(***************************************************************************)
(* hmac.new(decoded_key).digest(): HMAC keyed with the canonical message   *)
(* over an empty message, with the runtime's default hash.  The hash is    *)
(* idealised: the digest is the zero-padded key block XORed with the outer *)
(* pad 0x5c, the first byte with its high bit set as well.  It has a fixed *)
(* width, is injective on canonical messages (none ends in a zero byte),   *)
(* and holds a byte above 127, as nearly every real digest does.           *)
(***************************************************************************)
hmac_digest(decoded_key) ==
  LET block == decoded_key \o SeqOf(BlockSize - Len(decoded_key), 0)
  IN  [i \in 1..Len(block) |-> BitXor(block[i], IF i = 1 THEN 220 ELSE 92)]

(***************************************************************************)
(* Optional arguments: None is an argument left out.                       *)
(***************************************************************************)
None == [given |-> FALSE, value |-> 0]

Some(n) == [given |-> TRUE, value |-> n]

Bytes(s) == [kind |-> "bytes", s |-> s]

Text(s) == [kind |-> "text", s |-> s]

(***************************************************************************)
(* generate_token                                                          *)
(***************************************************************************)
\* line 54: when = when or int(time.time()); 0 is falsy like None
ClockIsRead(when) == ~when.given \/ when.value = 0

EffectiveWhen(now, when) == IF ClockIsRead(when) THEN now ELSE when.value

\* CanonicalMessage with the key left out of the format string
CanonicalMessageNoKey(key, user_id, action_id, time) ==
  user_id \o <<DELIMITER>> \o action_id \o <<DELIMITER>> \o IntToStr(time)

\* CanonicalMessage with the user left out of the format string
CanonicalMessageNoUser(key, user_id, action_id, time) ==
  key \o <<DELIMITER>> \o action_id \o <<DELIMITER>> \o IntToStr(time)

\* lines 55-59: '{key}{user_id}{delim}{action_id}{delim}{time}'
CanonicalMessage(key, user_id, action_id, time) ==
  key \o user_id \o <<DELIMITER>> \o action_id \o <<DELIMITER>> \o IntToStr(time)

\* line 64: '{digest}{delim}{time}'; the digest is raw bytes in a Python 2
\* str and the repr of a bytes object on Python 3
Envelope(runtime, digest, time) ==
  (IF runtime = 2 THEN digest ELSE BytesRepr(digest))
  \o <<DELIMITER>> \o IntToStr(time)

\* lines 55-70 for a settled time.  On Python 2 the encode of line 67 raises
\* UnicodeDecodeError when the envelope is not ASCII and line 69 encodes the
\* same bytes; on Python 3 the envelope is ASCII text.
TokenFor(runtime, key, user_id, action_id, time) ==
  Bytes(urlsafe_b64encode(
    Envelope(runtime, hmac_digest(CanonicalMessage(key, user_id, action_id, time)),
             time)))

generate_token(runtime, now, key, user_id, action_id, when) ==
  TokenFor(runtime, key, user_id, action_id, EffectiveWhen(now, when))

(***************************************************************************)
(* validate_token                                                          *)
(***************************************************************************)
\* LastField taking .split(DELIMITER)[0]
FirstField(b) ==
  IF LastIndexOf(b, DELIMITER) = 0 THEN b
  ELSE SubSeq(b, 1, (CHOOSE i \in 1..Len(b) :
                       b[i] = DELIMITER /\ \A j \in 1..(i - 1) : b[j] # DELIMITER) - 1)

\* .split(DELIMITER)[-1]
LastField(b) == SubSeq(b, LastIndexOf(b, DELIMITER) + 1, Len(b))

\* lines 93-105.  First attempt: decode base64, decode UTF-8, int() of the
\* last field.  Any TypeError or ValueError starts the second attempt, which
\* decodes base64 again and splits the bytes themselves: on Python 3 that is
\* bytes.split(str), a TypeError.  ok |-> FALSE is the return False of
\* line 105.  The final field is ASCII or undecodable in every token of
\* this model.
TokenTime(runtime, token) ==
  LET decoded == urlsafe_b64decode(runtime, token)
      parsed == ParseInt(LastField(decoded.bytes))
      first == decoded.ok /\ Utf8Valid(decoded.bytes) /\ parsed.ok
      second == decoded.ok /\ runtime = 2 /\ parsed.ok
  IN  IF first \/ second THEN parsed ELSE [ok |-> FALSE, value |-> 0]

\* Expired rejecting a token stamped as far in the future
ExpiredEitherWay(current_time, token_time) ==
  \/ current_time - token_time > DEFAULT_TIMEOUT_SECS
  \/ token_time - current_time > DEFAULT_TIMEOUT_SECS

\* line 109
Expired(current_time, token_time) ==
  current_time - token_time > DEFAULT_TIMEOUT_SECS

\* lines 106-107; the model's clock counts whole seconds
CurrentTime(now, current_time) ==
  IF current_time.given THEN current_time.value ELSE now

\* lines 122-123: the elements are integers only for a bytes object on
\* Python 3; a str or unicode element makes x ^ y a TypeError
ElementsAreInts(runtime, token) == runtime = 3 /\ token.kind = "bytes"

\* Accumulate assigning with = where the source has |=
AccumulateLast(different, x, y) == BitXor(x, y)

\* lines 123 and 127
Accumulate(different, x, y) == BitOr(different, BitXor(x, y))

\* line 126: token.encode(ENCODING), expected_token.encode(ENCODING).  The
\* result names the exception that leaves validate_token, or "ok".  On
\* Python 3 expected_token is bytes and has no encode; on Python 2 encoding a
\* str decodes it as ASCII first
FallbackEncode(runtime, token) ==
  IF runtime = 3 THEN "AttributeError"
  ELSE IF ~IsAscii(token.s) THEN "UnicodeDecodeError"
  ELSE "ok"

\* lines 119-131 as a whole: the pairs the running loop has consumed, the
\* accumulated difference, and "True", "False" or the exception that escapes
RECURSIVE CompareFrom(_, _, _, _)
CompareFrom(a, b, i, different) ==
  IF i > Len(a) \/ different < 0 THEN different
  ELSE CompareFrom(a, b, i + 1, Accumulate(different, a[i], b[i]))

Compare(runtime, token, expected_token) ==
  LET raised == IF ElementsAreInts(runtime, token) THEN "ok"
                ELSE FallbackEncode(runtime, token)
      different == CompareFrom(token.s, expected_token.s, 1, 0)
  IN  IF raised # "ok"
      THEN [result |-> raised, different |-> 0, pos |-> 1]
      ELSE [result |-> IF different # 0 THEN "False" ELSE "True",
            different |-> different, pos |-> Len(token.s) + 1]

\* lines 91-116, the part of validate_token before the loop: whether it has
\* returned False (decided), its locals, and whether it has read the clock
\* (line 107, and line 54 inside the call of line 113)
Prelude(runtime, now, key, token, user_id, action_id, current_time) ==
  LET time == TokenTime(runtime, token)
      parsed == token.s # <<>> /\ time.ok
      called == parsed /\ ~Expired(CurrentTime(now, current_time), time.value)
      expected ==
        IF called
        THEN generate_token(runtime, now, key, user_id, action_id,
                            Some(time.value))
        ELSE Bytes(<<>>)
  IN  [decided |-> ~called \/ Len(token.s) # Len(expected.s),
       token_time |-> IF parsed THEN time.value ELSE 0,
       expected_token |-> expected,
       clock_read |-> \/ parsed /\ ~current_time.given
                      \/ called /\ ClockIsRead(Some(time.value))]

\* lines 91-131: "True", "False", or the exception that escapes
validate_token(runtime, now, key, token, user_id, action_id, current_time) ==
  LET p == Prelude(runtime, now, key, token, user_id, action_id, current_time)
  IN  IF p.decided THEN "False"
      ELSE Compare(runtime, token, p.expected_token).result

(***************************************************************************)
(* The inputs of the model.                                                *)
(***************************************************************************)
\* "k", "j"
Keys == {<<107>>, <<106>>}

\* "a", "a:b"
UserIds == {<<97>>, <<97, 58, 98>>}

\* "c", "b:c"
ActionIds == {<<99>>, <<98, 58, 99>>}

\* when: left out, 0, a past and a later second
Whens == {None, Some(0), Some(0 - 1), Some(5)}

\* current_time: left out, or placed around the issue time and the timeout
CurrentTimes(when) ==
  {None} \cup {Some(when.value + d) :
                 d \in {0 - (DEFAULT_TIMEOUT_SECS + 1), 0,
                        DEFAULT_TIMEOUT_SECS, DEFAULT_TIMEOUT_SECS + 1}}

\* the same characters as a text string
AsText(token) == Text(token.s)

\* the other spellings of a token that base64url-decode to the same bytes
\* and have the same length: '+' for '-', '/' for '_', and a last data
\* character that differs only in the bits a padded quad leaves unused
Respellings(token) ==
  LET s == token.s
      n == Len(s)
      alt(i) ==
        IF s[i] = 45 THEN {43}
        ELSE IF s[i] = 95 THEN {47}
        ELSE IF i < n /\ s[i + 1] = 61 /\ s[i] # 61
          THEN {B64Char(B64Value(s[i]) + 1)}
        ELSE {}
  IN  {[token EXCEPT !.s[i] = c] : <<i, c>> \in
         UNION {{<<j, d>> : d \in alt(j)} : j \in 1..n}}

\* an envelope that holds a timestamp only, filled up to the length of the
\* token with a byte the decoder skips
Filled(runtime, token) ==
  LET time == TokenTime(runtime, token)
      short == urlsafe_b64encode(<<DELIMITER>> \o IntToStr(time.value))
  IN  IF time.ok /\ Len(short) < Len(token.s)
      THEN {Bytes(short \o SeqOf(Len(token.s) - Len(short), 255))}
      ELSE {}

\* "", "not-base64!!", base64url("garbage"), base64url("x:y")
Malformed ==
  {Bytes(<<>>),
   Bytes(<<110, 111, 116, 45, 98, 97, 115, 101, 54, 52, 33, 33>>),
   Bytes(urlsafe_b64encode(<<103, 97, 114, 98, 97, 103, 101>>)),
   Bytes(urlsafe_b64encode(<<120, DELIMITER, 121>>))}

\* what a client can present after it was issued a token: the token, the
\* token as text, one respelling and one filled token, the token of the
\* same request stamped 0, and the malformed ones
TokenInputs(runtime, iss) ==
  LET pick(S) == IF S = {} THEN {} ELSE {CHOOSE t \in S : TRUE}
  IN  {iss.token, AsText(iss.token),
       TokenFor(runtime, iss.key, iss.user_id, iss.action_id, 0)}
      \cup pick(Respellings(iss.token))
      \cup Filled(runtime, iss.token)
      \cup Malformed

(***************************************************************************)
(* State.                                                                  *)
(***************************************************************************)
VARIABLES
  py,              \* the Python runtime, 2 or 3
  clock,           \* int(time.time())
  issued,          \* the generate_token call made and the token it returned
  pc,              \* position of the validate_token call
  call,            \* arguments of the validate_token call
  token_time,      \* locals of validate_token
  expected_token,
  different,
  pos,             \* index of the next pair of the running loop, 0 before
  clock_read,      \* whether the call has read the clock
  result           \* "pending", "True", "False", or the exception raised

vars == <<py, clock, issued, pc, call, token_time, expected_token, different,
          pos, clock_read, result>>

NoToken == Bytes(<<>>)

NoIssue == [made |-> FALSE, key |-> <<>>, user_id |-> <<>>, action_id |-> <<>>,
            when |-> None, token |-> NoToken]

NoCall == [key |-> <<>>, token |-> NoToken, user_id |-> <<>>,
           action_id |-> <<>>, current_time |-> None]

Init ==
  /\ py \in {2, 3}
  /\ clock = 1
  /\ issued = NoIssue
  /\ pc = "idle"
  /\ call = NoCall
  /\ token_time = 0
  /\ expected_token = NoToken
  /\ different = 0
  /\ pos = 0
  /\ clock_read = FALSE
  /\ result = "pending"

frame == <<call, token_time, expected_token, different, pos, clock_read, result>>

\* the clock advances between calls
Tick ==
  /\ pc = "idle"
  /\ clock < MaxClock
  /\ clock' = clock + 1
  /\ UNCHANGED <<py, issued, pc, frame>>

\* a call of generate_token, lines 40-70
Generate(key, user_id, action_id, when) ==
  /\ pc = "idle"
  /\ ~issued.made
  /\ issued' = [made |-> TRUE, key |-> key, user_id |-> user_id,
                action_id |-> action_id, when |-> when,
                token |-> generate_token(py, clock, key, user_id, action_id, when)]
  /\ UNCHANGED <<py, clock, pc, frame>>

\* the arguments and the locals that lines 91-121 leave behind
Entry(p, key, token, user_id, action_id, current_time) ==
  /\ call' = [key |-> key, token |-> token, user_id |-> user_id,
              action_id |-> action_id, current_time |-> current_time]
  /\ token_time' = p.token_time
  /\ expected_token' = p.expected_token
  /\ clock_read' = p.clock_read

\* a whole call of validate_token, lines 74-131
Validate(key, token, user_id, action_id, current_time) ==
  /\ pc = "idle"
  /\ issued.made
  /\ \E p \in {Prelude(py, clock, key, token, user_id, action_id, current_time)} :
       /\ Entry(p, key, token, user_id, action_id, current_time)
       /\ IF p.decided
          THEN result' = "False" /\ different' = 0 /\ pos' = 0
          ELSE \E c \in {Compare(py, token, p.expected_token)} :
                 /\ result' = c.result
                 /\ different' = c.different
                 /\ pos' = c.pos
  /\ pc' = "done"
  /\ UNCHANGED <<py, clock, issued>>

\* validate_token from its entry to the start of the loop, lines 91-121
ValidateStart(key, token, user_id, action_id, current_time) ==
  /\ pc = "idle"
  /\ issued.made
  /\ \E p \in {Prelude(py, clock, key, token, user_id, action_id, current_time)} :
       /\ Entry(p, key, token, user_id, action_id, current_time)
       /\ IF p.decided
          THEN pc' = "done" /\ result' = "False" /\ pos' = 0
          ELSE pc' = "loop" /\ result' = "pending" /\ pos' = 1
  /\ different' = 0
  /\ UNCHANGED <<py, clock, issued>>

\* one iteration of the loop of lines 122-123
LoopStep ==
  /\ pc = "loop"
  /\ pos <= Len(expected_token.s)
  /\ ElementsAreInts(py, call.token)
  /\ different' = Accumulate(different, call.token.s[pos], expected_token.s[pos])
  /\ pos' = pos + 1
  /\ UNCHANGED <<py, clock, issued, pc, call, token_time, expected_token,
                 clock_read, result>>

\* x ^ y raises TypeError in the first iteration: lines 124-126
LoopTypeError ==
  /\ pc = "loop"
  /\ pos <= Len(expected_token.s)
  /\ ~ElementsAreInts(py, call.token)
  /\ LET raised == FallbackEncode(py, call.token)
     IN  IF raised = "ok"
         THEN pc' = "fallback" /\ result' = result
         ELSE pc' = "done" /\ result' = raised
  /\ UNCHANGED <<py, clock, issued, call, token_time, expected_token,
                 different, pos, clock_read>>

\* one iteration of the loop of lines 126-127
FallbackStep ==
  /\ pc = "fallback"
  /\ pos <= Len(expected_token.s)
  /\ different' = Accumulate(different, call.token.s[pos], expected_token.s[pos])
  /\ pos' = pos + 1
  /\ UNCHANGED <<py, clock, issued, pc, call, token_time, expected_token,
                 clock_read, result>>

\* lines 128-131
LoopExit ==
  /\ pc \in {"loop", "fallback"}
  /\ pos > Len(expected_token.s)
  /\ result' = IF different # 0 THEN "False" ELSE "True"
  /\ pc' = "done"
  /\ UNCHANGED <<py, clock, issued, call, token_time, expected_token,
                 different, pos, clock_read>>

\* the call is over; the caller may call again
Return ==
  /\ pc = "done"
  /\ pc' = "idle"
  /\ call' = NoCall
  /\ token_time' = 0
  /\ expected_token' = NoToken
  /\ different' = 0
  /\ pos' = 0
  /\ clock_read' = FALSE
  /\ result' = "pending"
  /\ UNCHANGED <<py, clock, issued>>

Issue ==
  /\ pc = "idle"
  /\ \E key \in Keys, user_id \in UserIds, action_id \in ActionIds,
        when \in Whens :
       Generate(key, user_id, action_id, when)

\* calls of validate_token, each one step
Next ==
  \/ Tick
  \/ Issue
  \/ /\ pc = "idle" /\ issued.made
     /\ \E key \in Keys, user_id \in UserIds, action_id \in ActionIds,
           token \in TokenInputs(py, issued),
           current_time \in CurrentTimes(issued.when) :
          Validate(key, token, user_id, action_id, current_time)
  \/ Return

Spec == Init /\ [][Next]_vars

\* calls of validate_token with the comparison loop one iteration a step,
\* made with the key of the issued token at the issue time or with
\* current_time left out
NextSteps ==
  \/ Tick
  \/ Issue
  \/ /\ pc = "idle" /\ issued.made
     /\ \E user_id \in UserIds, action_id \in ActionIds,
           token \in TokenInputs(py, issued),
           current_time \in {None, issued.when} :
          ValidateStart(issued.key, token, user_id, action_id, current_time)
  \/ LoopStep
  \/ LoopTypeError
  \/ FallbackStep
  \/ LoopExit
  \/ Return

SpecSteps == Init /\ [][NextSteps]_vars

\* the stepwise call ends as the whole call does
StepwiseAgrees ==
  pc = "done" =>
    /\ result = validate_token(py, clock, call.key, call.token, call.user_id,
                               call.action_id, call.current_time)
    /\ pos > 1 => different = CompareFrom(call.token.s, expected_token.s, 1, 0)
(***************************************************************************)
(* Properties.                                                             *)
(***************************************************************************)
\* the finished call was made for the request the token was issued for
SameRequest ==
  /\ call.key = issued.key
  /\ call.user_id = issued.user_id
  /\ call.action_id = issued.action_id

\* the finished call presented the issued token as generate_token returned it
PresentedIssued == pc = "done" /\ call.token = issued.token

\* the call went through the comparison loop to its end
Compared == pos = Len(expected_token.s) + 1

\* C1: a token generated with an explicit `when` validates for the same key,
\* user and action at current_time = when
RoundTrip ==
  (PresentedIssued /\ SameRequest /\ issued.when.given
     /\ call.current_time = issued.when)
  => result = "True"

RoundTripWitness ==
  /\ PresentedIssued /\ SameRequest /\ issued.when.given
  /\ call.current_time = issued.when
  /\ issued.when.value < 0
  /\ result = "True"

\* C2: a token generated with an explicit `when` validates at
\* current_time = when + 3600 and does not at current_time = when + 3601
ExpiryBoundary ==
  (PresentedIssued /\ SameRequest /\ issued.when.given) =>
    /\ call.current_time = Some(issued.when.value + 3600) => result = "True"
    /\ call.current_time = Some(issued.when.value + 3601) => result = "False"

KeySensitivity ==
  (PresentedIssued /\ call.key # issued.key
     /\ call.user_id = issued.user_id /\ call.action_id = issued.action_id)
  => result = "False"

KeySensitivityWitness ==
  /\ PresentedIssued /\ call.key # issued.key
  /\ call.user_id = issued.user_id /\ call.action_id = issued.action_id
  /\ Compared
  /\ result = "False"

\* C5: every call of validate_token ends by returning a boolean
Total == pc = "done" => result \in {"True", "False"}

\* C6: the timestamp validate_token recovers from a token generated with an
\* explicit `when` is `when`
SelfDescribing ==
  (issued.made /\ issued.when.given) =>
    TokenTime(py, issued.token) = [ok |-> TRUE, value |-> issued.when.value]

\* C7: a call of validate_token with current_time supplied does not read the
\* clock and returns the same at every value of the clock
ClockIndependence ==
  (pc = "done" /\ call.current_time.given) =>
    /\ ~clock_read
    /\ \A now \in 1..MaxClock :
         validate_token(py, now, call.key, call.token, call.user_id,
                        call.action_id, call.current_time) = result

\* Python's token == expected_token: a text string never equals a bytes
\* object on Python 3
PyEquals(runtime, a, b) == a.s = b.s /\ (runtime = 2 \/ a.kind = b.kind)

\* the issue time the token of the finished call carries
Carried == TokenTime(py, call.token)

Regenerated ==
  generate_token(py, clock, call.key, call.user_id, call.action_id,
                 Some(Carried.value))

\* C8: validate_token returns True exactly when the token is not empty, its
\* final field parses as an integer token_time, current_time - token_time is
\* at most 3600, and the token equals generate_token(.., when = token_time)
Acceptance ==
  pc = "done" =>
    (result = "True" <=>
       /\ call.token.s # <<>>
       /\ Carried.ok
       /\ CurrentTime(clock, call.current_time) - Carried.value <= 3600
       /\ PyEquals(py, call.token, Regenerated))

\* another spelling of the regenerated token, decoding to the same bytes, has
\* been compared to the end and rejected
AcceptanceWitness ==
  /\ pc = "done"
  /\ call.token.kind = "bytes"
  /\ call.token.s # Regenerated.s
  /\ urlsafe_b64decode(py, call.token) = urlsafe_b64decode(py, Regenerated)
  /\ Compared
  /\ result = "False"

\* C9: a token generated with an explicit `when` validates at every
\* current_time before `when`
FutureDated ==
  (PresentedIssued /\ SameRequest /\ issued.when.given
     /\ call.current_time.given
     /\ call.current_time.value < issued.when.value)
  => result = "True"

FutureDatedWitness ==
  /\ PresentedIssued /\ SameRequest /\ issued.when.given
  /\ call.current_time.given
  /\ issued.when.value - call.current_time.value > DEFAULT_TIMEOUT_SECS
  /\ result = "True"

\* C10: a call that has reached the comparison loop ends only after the loop
\* has gone through all the n pairs, and has no result before
NoEarlyExit ==
  /\ pc \in {"loop", "fallback"} => result = "pending"
  /\ (pc = "done" /\ pos >= 1) => Compared

\* every call that returns from the loop has gone through all the pairs
ReturnsAfterFullPass ==
  (pc = "done" /\ pos >= 1 /\ result \in {"True", "False"}) => Compared
====
